---------------------------- MODULE Spec2Model ----------------------------
(***************************************************************************)
(* Model of send_mail_merge.py: the loading of the configuration, the      *)
(* templates and the contacts, contact filtering, template rendering, the  *)
(* retry/backoff delivery loop, outcome logging, pacing, and the           *)
(* end-of-run persistence of the contact list.                             *)
(*                                                                         *)
(* A Python str is modelled as the sequence of its characters, so that     *)
(* strip(), upper(), lower(), replace(), the "in" substring test and the   *)
(* f-string concatenations are computed, not assumed.                      *)
(***************************************************************************)
EXTENDS Integers, Sequences, FiniteSets, TLC

VARIABLES
    args,             \* parsed command line: dry_run, update_contacts, from_row, max
    max_retries,      \* send_email_with_retry's max_retries parameter
    csv_at_load,      \* the rows of the contacts CSV when the run started
    csv_file,         \* the rows of the contacts CSV on disk
    saves,            \* number of save_contacts calls
    contacts,         \* main's in-memory list of contact dicts
    pc,               \* position of main: load_env, ..., filter, send, pace,
                      \* persist, done (or render, rendered in SpecRender)
    fidx,             \* number of rows the filter loop has examined
    contacts_to_send, \* original indexes (0-based) of the selected contacts
    log,              \* rows appended to the log file, in order
    stats,            \* {"sent", "failed", "skipped"}
    sidx,             \* send loop: position (1-based) in contacts_to_send
    msg,              \* the message built for the current contact
    rpc,              \* send_email_with_retry: idle, attempting, returned, raised
    attempt,          \* send_email_with_retry's loop variable
    history,          \* what each send_email call of the current message did
    sleeps,           \* time.sleep calls of the current send_email_with_retry
    ret,              \* what send_email_with_retry returned (NoRet before)
    transport_calls,  \* SMTP sessions opened during the run
    paces,            \* inter-send time.sleep(args.sleep) calls during the run
    exit_status,      \* Running, or Exited(code) once the process ended
    diagnostic,       \* the error main printed before sys.exit(1), "" if none
    previous,         \* earlier runs over the same files: how many there
                      \* were, and how long the log file was when they ended
    template,         \* render_template: its template argument
    context,          \* render_template: the items of its context argument
    result            \* render_template: what it returned

vars == <<args, max_retries, csv_at_load, csv_file, saves, contacts, pc,
          fidx, contacts_to_send, log, stats, sidx, msg, rpc, attempt,
          history, sleeps, ret, transport_calls, paces, exit_status,
          diagnostic, previous, template, context, result>>

render_vars == <<template, context, result>>

\* Python's None where a tuple or a number is expected
NoRet == [success |-> FALSE, info |-> <<>>]
Running == <<>>
Exited(code) == <<code>>

-----------------------------------------------------------------------------
(* Bounds of the model *)

MaxContacts == 2    \* rows in the contacts CSV
MaxFromRow == 1     \* --from-row ranges over 0..MaxFromRow
MaxMax == 2         \* --max ranges over 0..MaxMax (0: not given)
MaxRetries == 3     \* max_retries ranges over 0..MaxRetries in SpecRetry

-----------------------------------------------------------------------------
(* Python string operations *)

UpperAlpha == <<"A", "B", "C", "D", "E", "F", "G", "H", "I", "J", "K", "L", "M",
                "N", "O", "P", "Q", "R", "S", "T", "U", "V", "W", "X", "Y", "Z">>
LowerAlpha == <<"a", "b", "c", "d", "e", "f", "g", "h", "i", "j", "k", "l", "m",
                "n", "o", "p", "q", "r", "s", "t", "u", "v", "w", "x", "y", "z">>
Digits == <<"0", "1", "2", "3", "4", "5", "6", "7", "8", "9">>

IsUpperChar(c) == \E i \in 1..26 : UpperAlpha[i] = c
IsLowerChar(c) == \E i \in 1..26 : LowerAlpha[i] = c
IsDigitChar(c) == \E i \in 1..10 : Digits[i] = c
IsSpaceChar(c) == c \in {" ", "\t", "\n", "\r"}

LowerChar(c) ==
    IF IsUpperChar(c) THEN LowerAlpha[CHOOSE i \in 1..26 : UpperAlpha[i] = c] ELSE c
UpperChar(c) ==
    IF IsLowerChar(c) THEN UpperAlpha[CHOOSE i \in 1..26 : LowerAlpha[i] = c] ELSE c

\* str.lower(), str.upper()
str_lower(s) == [i \in 1..Len(s) |-> LowerChar(s[i])]
str_upper(s) == [i \in 1..Len(s) |-> UpperChar(s[i])]

\* str.strip(): drops leading and trailing whitespace
str_strip(s) ==
    LET keep == {i \in 1..Len(s) : ~IsSpaceChar(s[i])}
    IN  IF keep = {} THEN <<>>
        ELSE LET lo == CHOOSE i \in keep : \A j \in keep : i <= j
                 hi == CHOOSE i \in keep : \A j \in keep : j <= i
             IN  SubSeq(s, lo, hi)

\* sub in s
str_in(sub, s) ==
    \E i \in 0..(Len(s) - Len(sub)) : SubSeq(s, i + 1, i + Len(sub)) = sub

\* str(n) for an integer n >= 0
RECURSIVE int_str(_)
int_str(n) == IF n < 10 THEN <<Digits[n + 1]>>
              ELSE int_str(n \div 10) \o <<Digits[(n % 10) + 1]>>

-----------------------------------------------------------------------------
(* send_email: the outcome details *)

DRY_RUN_MARKER == <<"D", "R", "Y", " ", "R", "U", "N", " ", "-", " ", "E", "m", "a", "i", "l", " ", "n", "o", "t", " ", "s", "e", "n", "t">>
SENT_OK == <<"E", "m", "a", "i", "l", " ", "s", "e", "n", "t", " ", "s", "u", "c", "c", "e", "s", "s", "f", "u", "l", "l", "y">>
PfxAuth == <<"E", "r", "r", "o", "r", " ", "d", "e", " ", "a", "u", "t", "e", "n", "t", "i", "c", "a", "c", "i", "ó", "n", " ", "S", "M", "T", "P", ":", " ">>
PfxRcpt == <<"E", "r", "r", "o", "r", ":", " ", "d", "e", "s", "t", "i", "n", "a", "t", "a", "r", "i", "o", "s", " ", "r", "e", "c", "h", "a", "z", "a", "d", "o", "s", ":", " ">>
PfxSender == <<"E", "r", "r", "o", "r", ":", " ", "r", "e", "m", "i", "t", "e", "n", "t", "e", " ", "r", "e", "c", "h", "a", "z", "a", "d", "o", ":", " ">>
PfxSSL == <<"E", "r", "r", "o", "r", " ", "d", "e", " ", "S", "S", "L", ":", " ">>
PfxDNS == <<"E", "r", "r", "o", "r", " ", "d", "e", " ", "r", "e", "s", "o", "l", "u", "c", "i", "ó", "n", " ", "D", "N", "S", ":", " ">>
PfxConn == <<"E", "r", "r", "o", "r", " ", "d", "e", " ", "c", "o", "n", "e", "x", "i", "ó", "n", ":", " ">>
PfxSMTP == <<"E", "r", "r", "o", "r", " ", "S", "M", "T", "P", ":", " ">>

\* The exception classes send_email catches, in the order of its except
\* clauses; a raised exception is named by the first clause that catches it.
AuthKind == "SMTPAuthenticationError"
RcptKind == "SMTPRecipientsRefused"
SenderKind == "SMTPSenderRefused"
PermanentKinds == {AuthKind, RcptKind, SenderKind}
TransientKinds == {"SSLError", "gaierror", "ConnectionError", "SMTPException"}
CaughtKinds == PermanentKinds \cup TransientKinds
\* An exception no except clause catches (TimeoutError and every other OSError
\* that is neither SSLError, gaierror nor ConnectionError).
UncaughtKind == "OSError"

ErrorPrefix(kind) ==
    CASE kind = AuthKind -> PfxAuth
      [] kind = RcptKind -> PfxRcpt
      [] kind = SenderKind -> PfxSender
      [] kind = "SSLError" -> PfxSSL
      [] kind = "gaierror" -> PfxDNS
      [] kind = "ConnectionError" -> PfxConn
      [] kind = "SMTPException" -> PfxSMTP

\* str(e) of the exception the transport raised. Per exception class, a
\* text with none of the substrings the retry policy looks for:
TxtUserUnknown == <<"{", "'", "a", "@", "o", "k", ".", "i", "t", "'", ":", " ", "(", "5", "5", "0", ",", " ", "b", "'", "U", "s", "e", "r", " ", "u", "n", "k", "n", "o", "w", "n", "'", ")", "}">>
TxtRelayDenied == <<"(", "5", "5", "3", ",", " ", "b", "'", "R", "e", "l", "a", "y", "i", "n", "g", " ", "d", "e", "n", "i", "e", "d", "'", ",", " ", "'", "s", "@", "x", ".", "i", "t", "'", ")">>
TxtHandshake == <<"[", "S", "S", "L", "]", " ", "h", "a", "n", "d", "s", "h", "a", "k", "e", " ", "f", "a", "i", "l", "u", "r", "e">>
TxtNameUnknown == <<"[", "E", "r", "r", "n", "o", " ", "-", "2", "]", " ", "N", "a", "m", "e", " ", "o", "r", " ", "s", "e", "r", "v", "i", "c", "e", " ", "n", "o", "t", " ", "k", "n", "o", "w", "n">>
TxtClosed == <<"C", "o", "n", "n", "e", "c", "t", "i", "o", "n", " ", "u", "n", "e", "x", "p", "e", "c", "t", "e", "d", "l", "y", " ", "c", "l", "o", "s", "e", "d">>
TxtRefused == <<"[", "E", "r", "r", "n", "o", " ", "1", "1", "1", "]", " ", "C", "o", "n", "n", "e", "c", "t", "i", "o", "n", " ", "r", "e", "f", "u", "s", "e", "d">>
TxtBadLogin == <<"(", "5", "3", "5", ",", " ", "b", "'", "B", "a", "d", " ", "l", "o", "g", "i", "n", "'", ")">>
TxtAuthFailed == <<"(", "5", "3", "5", ",", " ", "b", "'", "A", "u", "t", "h", "e", "n", "t", "i", "c", "a", "t", "i", "o", "n", " ", "f", "a", "i", "l", "e", "d", "'", ")">>
TxtAUTH == <<"S", "M", "T", "P", " ", "A", "U", "T", "H", " ", "e", "x", "t", "e", "n", "s", "i", "o", "n", " ", "n", "o", "t", " ", "s", "u", "p", "p", "o", "r", "t", "e", "d", " ", "b", "y", " ", "s", "e", "r", "v", "e", "r", ".">>
TxtNoAddress == <<"[", "E", "r", "r", "n", "o", " ", "-", "5", "]", " ", "N", "o", " ", "a", "d", "d", "r", "e", "s", "s", " ", "a", "s", "s", "o", "c", "i", "a", "t", "e", "d", " ", "w", "i", "t", "h", " ", "h", "o", "s", "t", "n", "a", "m", "e">>
TxtRcpt == <<"(", "5", "5", "0", ",", " ", "b", "'", "N", "o", " ", "s", "u", "c", "h", " ", "r", "e", "c", "i", "p", "i", "e", "n", "t", "'", ")">>


PlainText(kind) ==
    CASE kind = AuthKind -> TxtBadLogin
      [] kind = RcptKind -> TxtUserUnknown
      [] kind = SenderKind -> TxtRelayDenied
      [] kind = "SSLError" -> TxtHandshake
      [] kind = "gaierror" -> TxtNameUnknown
      [] kind = "ConnectionError" -> TxtRefused
      [] kind = "SMTPException" -> TxtClosed

\* and the texts in which one of those substrings occurs, which an exception
\* of any class may carry
KeywordTexts == {TxtAuthFailed, TxtAUTH, TxtNoAddress, TxtRcpt}

ErrorTexts(kind) == {PlainText(kind)} \cup KeywordTexts

\* What one transport session can do: deliver, raise a caught exception with
\* some text, or raise an exception send_email does not catch.
Delivered == [kind |-> "ok", text |-> <<>>]
Uncaught == [kind |-> UncaughtKind, text |-> <<>>]
NotCalled == [kind |-> "not_called", text |-> <<>>]
TransportOutcomes ==
    {Delivered, Uncaught} \cup
    UNION {[kind : {k}, text : ErrorTexts(k)] : k \in CaughtKinds}

\* send_email(env_vars, msg, dry_run): (success, info); o is what the
\* transport session does when one is opened.
send_email(dry_run, o) ==
    IF dry_run THEN [success |-> TRUE, info |-> DRY_RUN_MARKER]
    ELSE IF o.kind = "ok" THEN [success |-> TRUE, info |-> SENT_OK]
    ELSE [success |-> FALSE, info |-> ErrorPrefix(o.kind) \o o.text]

\* (variant: the session is opened before dry_run is looked at)
opens_session_always(dry_run) == TRUE

\* send_email opens a transport session unless dry_run
opens_session(dry_run) == ~dry_run

-----------------------------------------------------------------------------
(* send_email_with_retry *)

KwAuthentication == <<"A", "u", "t", "h", "e", "n", "t", "i", "c", "a", "t", "i", "o", "n">>
KwAuth == <<"a", "u", "t", "h">>
KwRecipient == <<"r", "e", "c", "i", "p", "i", "e", "n", "t">>
KwAddress == <<"a", "d", "d", "r", "e", "s", "s">>
FailedAfterHead == <<"F", "a", "i", "l", "e", "d", " ", "a", "f", "t", "e", "r", " ">>
FailedAfterMid == <<" ", "a", "t", "t", "e", "m", "p", "t", "s", ":", " ">>
MaxRetriesExceeded == <<"M", "a", "x", " ", "r", "e", "t", "r", "i", "e", "s", " ", "e", "x", "c", "e", "e", "d", "e", "d">>

DefaultMaxRetries == 3
BackoffBase == 5

\* "Authentication" in info or "auth" in info.lower()
is_auth_info(info) ==
    str_in(KwAuthentication, info) \/ str_in(KwAuth, str_lower(info))

\* "recipient" in info.lower() or "address" in info.lower()
is_recipient_info(info) ==
    LET low == str_lower(info)
    IN  str_in(KwRecipient, low) \/ str_in(KwAddress, low)

\* the failures the loop returns at once
no_retry(info) == is_auth_info(info) \/ is_recipient_info(info)

\* (variant: the backoff does not grow)
wait_time_flat(a) == BackoffBase

\* wait_time = 5 * (2**attempt)
wait_time(a) == BackoffBase * (2 ^ a)

\* (variant: the loop sleeps after every failure it retries)
retries_left_unbounded(a, m) == TRUE

\* (variant: one sleep too many, attempt < max_retries)
retries_left_always(a, m) == a < m

\* attempt < max_retries - 1
retries_left(a, m) == a < m - 1

\* f"Failed after {max_retries} attempts: {info}"
failed_after(m, info) ==
    FailedAfterHead \o int_str(m) \o FailedAfterMid \o info

\* One iteration of the for loop: the send_email call, the classification
\* of its result, and the backoff sleep or the return.
send_email_with_retry_iter(o) ==
    /\ rpc = "attempting"
    /\ attempt < max_retries
    /\ transport_calls' =
           IF opens_session(args.dry_run) THEN transport_calls + 1
           ELSE transport_calls
    /\ IF ~args.dry_run /\ o.kind = UncaughtKind
       THEN \* the exception leaves send_email, the loop and main
            /\ history' = Append(history, [kind |-> o.kind, success |-> FALSE, info |-> o.text])
            /\ rpc' = "raised"
            /\ pc' = "crashed"
            /\ exit_status' = Exited(1)
            /\ UNCHANGED <<attempt, sleeps, ret>>
       ELSE LET r == send_email(args.dry_run, o) IN
            /\ history' = Append(history, [kind |-> o.kind, success |-> r.success, info |-> r.info])
            /\ UNCHANGED <<pc, exit_status>>
            /\ IF r.success \/ no_retry(r.info)
               THEN /\ ret' = r
                    /\ rpc' = "returned"
                    /\ UNCHANGED <<attempt, sleeps>>
               ELSE IF retries_left(attempt, max_retries)
               THEN /\ sleeps' = Append(sleeps, wait_time(attempt))
                    /\ attempt' = attempt + 1
                    /\ UNCHANGED <<ret, rpc>>
               ELSE /\ ret' = [success |-> FALSE,
                               info |-> failed_after(max_retries, r.info)]
                    /\ rpc' = "returned"
                    /\ UNCHANGED <<attempt, sleeps>>
    /\ UNCHANGED <<diagnostic, previous, render_vars,
                   args, max_retries, csv_at_load, csv_file, saves,
                   contacts, fidx, contacts_to_send, log, stats, sidx, msg,
                   paces>>

\* The for loop ends without a return: return False, "Max retries exceeded"
send_email_with_retry_end ==
    /\ rpc = "attempting"
    /\ attempt >= max_retries
    /\ ret' = [success |-> FALSE, info |-> MaxRetriesExceeded]
    /\ rpc' = "returned"
    /\ UNCHANGED <<diagnostic, previous, render_vars,
                   args, max_retries, csv_at_load, csv_file, saves,
                   contacts, pc, fidx, contacts_to_send, log, stats, sidx,
                   msg, attempt, history, sleeps, transport_calls, paces,
                   exit_status>>

\* The outcomes offered to one send_email call
Offered(S) == IF args.dry_run THEN {NotCalled} ELSE S


-----------------------------------------------------------------------------
(* Contacts *)

SENT == <<"S", "E", "N", "T">>
SKIP == <<"S", "K", "I", "P">>
ERROR == <<"E", "R", "R", "O", "R">>
DRY_RUN == <<"D", "R", "Y", "_", "R", "U", "N">>
INVALID_EMAIL == <<"I", "n", "v", "a", "l", "i", "d", " ", "e", "m", "a", "i", "l", " ", "f", "o", "r", "m", "a", "t">>
FALLBACK == <<"R", "e", "s", "p", "o", "n", "s", "a", "b", "i", "l", "e", " ", "d", "e", "l", "l", "e", " ", "r", "i", "s", "o", "r", "s", "e", " ", "u", "m", "a", "n", "e">>

\* Inputs: e-mail addresses, names and stored statuses of the CSV rows
EmailOk == <<"a", "@", "o", "k", ".", "i", "t">>
EmailNoDns == <<"c", "@", "n", "o", ".", "i", "t">>
EmailBad == <<"n", "o", "t", "-", "a", "n", "-", "e", "m", "a", "i", "l">>
NameAnn == <<"A", "n", "n">>
NamePadded == <<" ", "A", "n", "n", " ">>
NameGeneric == <<"R", "e", "s", "p", "o", "n", "s", "a", "b", "i", "l", "e", " ", "d", "e", "l", "l", "e", " ", "r", "i", "s", "o", "r", "s", "e", " ", "u", "m", "a", "n", "e">>
HotelName == <<"H", "o", "t", "e", "l">>
CityName == <<"R", "o", "m", "a">>
NameBlank == <<" ">>
StatusEmpty == <<>>
StatusSentLower == <<" ", "s", "e", "n", "t">>
StatusSkipMixed == <<"S", "k", "i", "p", " ">>

\* The domains socket.gethostbyname resolves in the modelled network
DomainOk == <<"o", "k", ".", "i", "t">>
Resolvable == {DomainOk}

Row(email, name, status, sent_at) ==
    [email |-> email, hotel_name |-> HotelName, city |-> CityName,
     contact_name |-> name, notes |-> "note", status |-> status,
     sent_at |-> sent_at]

ContactRows ==
    { Row(EmailOk, NamePadded, StatusEmpty, ""),
      Row(EmailOk, NameBlank, ERROR, ""),
      Row(EmailBad, NameAnn, StatusEmpty, ""),
      Row(EmailNoDns, NameAnn, StatusEmpty, ""),
      Row(EmailOk, NameAnn, StatusSentLower, "earlier"),
      Row(EmailOk, <<>>, StatusSkipMixed, ""),
      Row(EmailOk, NameGeneric, StatusEmpty, "") }

ContactLists == UNION {[1..n -> ContactRows] : n \in 0..MaxContacts}

IsAlphaChar(c) == IsUpperChar(c) \/ IsLowerChar(c)
IsAlnumChar(c) == IsAlphaChar(c) \/ IsDigitChar(c)
IsLocalChar(c) == IsAlnumChar(c) \/ c \in {".", "_", "%", "+", "-"}
IsDomainChar(c) == IsAlnumChar(c) \/ c \in {".", "-"}

\* re.match(r"^[a-zA-Z0-9._%+-]+@[a-zA-Z0-9.-]+\.[a-zA-Z]{2,}$", s) on a
\* string without a trailing newline
pattern_fullmatch(s) ==
    \E at \in 2..Len(s) : \E dot \in (at + 2)..(Len(s) - 2) :
        /\ s[at] = "@"
        /\ s[dot] = "."
        /\ \A i \in 1..(at - 1) : IsLocalChar(s[i])
        /\ \A i \in (at + 1)..(dot - 1) : IsDomainChar(s[i])
        /\ \A i \in (dot + 1)..Len(s) : IsAlphaChar(s[i])

\* "$" also matches just before a newline that ends the string
pattern_match(s) ==
    \/ pattern_fullmatch(s)
    \/ /\ s # <<>>
       /\ s[Len(s)] = "\n"
       /\ pattern_fullmatch(SubSeq(s, 1, Len(s) - 1))

\* email.split("@")[1] of a string the pattern matched (it holds one "@")
domain_of(s) ==
    LET at == CHOOSE i \in 1..Len(s) : s[i] = "@"
    IN  SubSeq(s, at + 1, Len(s))

\* socket.gethostbyname(domain) returns (no gaierror)
gethostbyname_ok(domain) == domain \in Resolvable

\* (variant: the pattern alone, without the domain lookup)
validate_email_syntax_only(email) == pattern_match(email)

validate_email(email) ==
    pattern_match(email) /\ gethostbyname_ok(domain_of(email))

\* (variant: the status is compared without strip())
already_handled_nostrip(contact) ==
    str_upper(contact.status) \in {SENT, SKIP}

\* contact.get("status", "").strip().upper() in ["SENT", "SKIP"]
already_handled(contact) ==
    str_upper(str_strip(contact.status)) \in {SENT, SKIP}

\* a row of the log file (the timestamp column is left out; row is the
\* position of the contact in the CSV, which identifies it)
LogEntry(idx, contact, name, status, info) ==
    [email |-> contact.email, hotel_name |-> contact.hotel_name,
     city |-> contact.city, contact_name |-> name, status |-> status,
     info |-> info, row |-> idx]

\* (variant: the log file is opened for writing, not for appending)
log_to_file_truncating(rows, entry) == <<entry>>

\* log_to_file: the file is opened in mode "a" and one row is written
log_to_file(rows, entry) == Append(rows, entry)

\* (variant: the loop stops one contact late, > instead of >=)
max_reached_late(max, n) == max # 0 /\ n > max

\* args.max and len(contacts_to_send) >= args.max
max_reached(max, n) == max # 0 /\ n >= max

-----------------------------------------------------------------------------
(* main: loading the configuration, the templates and the contacts *)

NoError == ""
ErrMissingVars == "Error: Missing required variables"
ErrNoCredentials == "Error: No credentials found!"
ErrTemplate == "Error: Template file not found"
ErrCsvMissing == "Error: Contacts CSV not found"
ErrCsvEmpty == "Error: CSV file appears to be empty or malformed"
ErrCsvColumns == "Error: CSV has incorrect columns"
ErrAttachment == "Error: Attachment not found"

\* load_env_config: the system environment wins when it has every required
\* variable; else the .env file, which must exist and name every one
load_env_config(system_complete, env_file) ==
    IF system_complete THEN NoError
    ELSE IF env_file = "complete" THEN NoError
    ELSE IF env_file = "incomplete" THEN ErrMissingVars
    ELSE ErrNoCredentials

\* load_template: the file must exist
load_template(exists) == IF exists THEN NoError ELSE ErrTemplate

\* load_contacts: the file must exist, have a header row, and the header
\* must hold every required column
load_contacts(exists, has_fieldnames, has_required_columns) ==
    IF ~exists THEN ErrCsvMissing
    ELSE IF ~has_fieldnames THEN ErrCsvEmpty
    ELSE IF ~has_required_columns THEN ErrCsvColumns
    ELSE NoError

\* args.attachment and not os.path.exists(args.attachment)
attachment_missing(given, exists) == given /\ ~exists

\* (variant: the diagnostic is printed and the process leaves with 0)
fatal_status_zero(error) ==
    /\ diagnostic' = error
    /\ pc' = "fatal"
    /\ exit_status' = Exited(0)

\* print_colored(error); sys.exit(1)
fatal(error) ==
    /\ diagnostic' = error
    /\ pc' = "fatal"
    /\ exit_status' = Exited(1)

\* env_vars = load_env_config(args.env)
load_config_step ==
    /\ pc = "load_env"
    /\ \E system_complete \in BOOLEAN,
          env_file \in {"absent", "incomplete", "complete"} :
           LET error == load_env_config(system_complete, env_file) IN
           IF error # NoError
           THEN fatal(error)
           ELSE /\ pc' = "load_subject"
                /\ UNCHANGED <<diagnostic, exit_status>>
    /\ UNCHANGED <<previous, render_vars,
                   args, max_retries, csv_at_load, csv_file, saves, contacts,
                   fidx, contacts_to_send, log, stats, sidx, msg, rpc,
                   attempt, history, sleeps, ret, transport_calls, paces>>

\* subject_template = load_template(args.subject), then
\* html_template = load_template(args.html)
load_template_step ==
    /\ pc \in {"load_subject", "load_html"}
    /\ \E exists \in BOOLEAN :
           LET error == load_template(exists) IN
           IF error # NoError
           THEN fatal(error)
           ELSE /\ pc' = IF pc = "load_subject" THEN "load_html"
                         ELSE "load_contacts"
                /\ UNCHANGED <<diagnostic, exit_status>>
    /\ UNCHANGED <<previous, render_vars,
                   args, max_retries, csv_at_load, csv_file, saves, contacts,
                   fidx, contacts_to_send, log, stats, sidx, msg, rpc,
                   attempt, history, sleeps, ret, transport_calls, paces>>

\* contacts = load_contacts(args.csv): the rows of the file, as dicts
load_contacts_step ==
    /\ pc = "load_contacts"
    /\ \E exists \in BOOLEAN, has_fieldnames \in BOOLEAN,
          has_required_columns \in BOOLEAN :
           LET error == load_contacts(exists, has_fieldnames,
                                      has_required_columns) IN
           IF error # NoError
           THEN fatal(error) /\ UNCHANGED contacts
           ELSE /\ contacts' = csv_file
                /\ pc' = "attachment"
                /\ UNCHANGED <<diagnostic, exit_status>>
    /\ UNCHANGED <<previous, render_vars,
                   args, max_retries, csv_at_load, csv_file, saves,
                   fidx, contacts_to_send, log, stats, sidx, msg, rpc,
                   attempt, history, sleeps, ret, transport_calls, paces>>

\* The attachment, when one is named, must exist; then the filter loop
\* starts (and ends at once over an empty list)
validate_attachment ==
    /\ pc = "attachment"
    /\ \E given \in BOOLEAN, exists \in BOOLEAN :
           IF attachment_missing(given, exists)
           THEN fatal(ErrAttachment)
           ELSE /\ pc' = IF contacts = <<>> THEN "filtered" ELSE "filter"
                /\ UNCHANGED <<diagnostic, exit_status>>
    /\ UNCHANGED <<previous, render_vars,
                   args, max_retries, csv_at_load, csv_file, saves, contacts,
                   fidx, contacts_to_send, log, stats, sidx, msg, rpc,
                   attempt, history, sleeps, ret, transport_calls, paces>>

-----------------------------------------------------------------------------
(* main: the filter loop *)

\* One iteration of "for idx, contact in enumerate(contacts)"
filter_step ==
    /\ pc = "filter"
    /\ fidx < Len(contacts)
    /\ LET idx == fidx
           contact == contacts[idx + 1]
           last == (fidx + 1 = Len(contacts))
       IN  /\ fidx' = fidx + 1
           /\ IF idx < args.from_row \/ already_handled(contact)
              THEN /\ pc' = IF last THEN "filtered" ELSE "filter"
                   /\ UNCHANGED <<log, contacts_to_send>>
              ELSE IF ~validate_email(contact.email)
              THEN /\ log' = log_to_file(log, LogEntry(idx, contact,
                                 contact.contact_name, ERROR, INVALID_EMAIL))
                   /\ pc' = IF last THEN "filtered" ELSE "filter"
                   /\ UNCHANGED contacts_to_send
              ELSE /\ contacts_to_send' = Append(contacts_to_send, idx)
                   /\ pc' = IF last \/ max_reached(args.max, Len(contacts_to_send'))
                            THEN "filtered" ELSE "filter"
                   /\ UNCHANGED log
    /\ UNCHANGED <<diagnostic, previous, render_vars,
                   args, max_retries, csv_at_load, csv_file, saves, contacts,
                   stats, sidx, msg, rpc, attempt, history, sleeps, ret,
                   transport_calls, paces, exit_status>>

\* "if not contacts_to_send: sys.exit(0)", else the statistics are set up
start_sending ==
    /\ pc = "filtered"
    /\ IF contacts_to_send = <<>>
       THEN /\ pc' = "exited"
            /\ exit_status' = Exited(0)
            /\ UNCHANGED <<stats, sidx>>
       ELSE /\ pc' = "send"
            /\ stats' = [sent |-> 0, failed |-> 0, skipped |-> 0]
            /\ sidx' = 1
            /\ UNCHANGED exit_status
    /\ UNCHANGED <<diagnostic, previous, render_vars,
                   args, max_retries, csv_at_load, csv_file, saves, contacts,
                   fidx, contacts_to_send, log, msg, rpc, attempt, history,
                   sleeps, ret, transport_calls, paces>>

-----------------------------------------------------------------------------
(* render_template *)

MaxPieces == 3      \* a template is made of at most MaxPieces pieces

\* f"{{{{{key}}}}}": the key between two pairs of braces
placeholder(key) == <<"{", "{">> \o key \o <<"}", "}">>

\* (variant: only the first occurrence is replaced, str.replace(old, new, 1))
RECURSIVE str_replace_first(_, _, _)
str_replace_first(s, old, new) ==
    IF Len(s) < Len(old) THEN s
    ELSE IF SubSeq(s, 1, Len(old)) = old
    THEN new \o SubSeq(s, Len(old) + 1, Len(s))
    ELSE <<s[1]>> \o str_replace_first(Tail(s), old, new)

\* s.replace(old, new) for a non-empty old: every occurrence, found from
\* left to right without overlap; what was inserted is not scanned again
RECURSIVE str_replace(_, _, _)
str_replace(s, old, new) ==
    IF Len(s) < Len(old) THEN s
    ELSE IF SubSeq(s, 1, Len(old)) = old
    THEN new \o str_replace(SubSeq(s, Len(old) + 1, Len(s)), old, new)
    ELSE <<s[1]>> \o str_replace(Tail(s), old, new)

\* Context values: strings and integers
StrValue(s) == [type |-> "str", s |-> s, n |-> 0]
IntValue(n) == [type |-> "int", s |-> <<>>, n |-> n]

\* str(value)
str(value) == IF value.type = "int" THEN int_str(value.n) ELSE value.s

\* render_template: for key, value in context.items(), one replace each,
\* each over the result of the one before
RECURSIVE render_template(_, _)
render_template(tpl, items) ==
    IF items = <<>> THEN tpl
    ELSE render_template(
             str_replace(tpl, placeholder(items[1].key), str(items[1].value)),
             Tail(items))

\* Inputs: the keys of the contexts, a key no context has, the pieces the
\* templates are made of and the values
KeyA == <<"a">>
KeyB == <<"b">>
KeyC == <<"c">>
Pieces ==
    { placeholder(KeyA), placeholder(KeyB), placeholder(KeyC),
      <<"x">>, <<"{", "{">>, <<"}", "}">> }
Values ==
    { StrValue(<<"v">>), StrValue(<<"b">>), StrValue(placeholder(KeyA)),
      StrValue(placeholder(KeyB)), IntValue(7) }

RECURSIVE Concat(_)
Concat(pieces) ==
    IF pieces = <<>> THEN <<>> ELSE pieces[1] \o Concat(Tail(pieces))

Templates ==
    {Concat(ps) : ps \in UNION {[1..n -> Pieces] : n \in 0..MaxPieces}}

Item(key, value) == [key |-> key, value |-> value]

\* dicts over the keys a and b, in both insertion orders
Contexts ==
    {<<>>}
    \cup {<<Item(k, v)>> : k \in {KeyA, KeyB}, v \in Values}
    \cup {<<Item(KeyA, v), Item(KeyB, w)>> : v \in Values, w \in Values}
    \cup {<<Item(KeyB, w), Item(KeyA, v)>> : v \in Values, w \in Values}

-----------------------------------------------------------------------------
(* main: the send loop *)

\* The contact of the current iteration: contacts_to_send holds references
\* to the dicts of contacts, so it is the row of contacts itself.
original_idx == contacts_to_send[sidx]
current == contacts[original_idx + 1]

\* contact.get("contact_name", "").strip(), or the generic greeting
greeting_name(contact) ==
    LET n == str_strip(contact.contact_name)
    IN  IF n = <<>> THEN FALLBACK ELSE n

\* Inputs: the subject template, SENDER_NAME and the date of the run
SubjectTemplate ==
    placeholder(<<"c", "o", "n", "t", "a", "c", "t", "_", "n", "a", "m", "e">>)
    \o <<",", " ">> \o placeholder(<<"c", "i", "t", "y">>)
SenderName == <<"E", "v", "e">>
Today == <<"0", "1", "/", "1", "1", "/", "2", "0", "2", "6">>

\* context = {"contact_name": ..., "hotel_name": ..., "city": ...,
\*            "sender_name": ..., "today": ...}, in this order
main_context(contact, contact_name) ==
    << Item(<<"c", "o", "n", "t", "a", "c", "t", "_", "n", "a", "m", "e">>,
            StrValue(contact_name)),
       Item(<<"h", "o", "t", "e", "l", "_", "n", "a", "m", "e">>,
            StrValue(contact.hotel_name)),
       Item(<<"c", "i", "t", "y">>, StrValue(contact.city)),
       Item(<<"s", "e", "n", "d", "e", "r", "_", "n", "a", "m", "e">>,
            StrValue(SenderName)),
       Item(<<"t", "o", "d", "a", "y">>, StrValue(Today)) >>

\* the to_name main passes to create_email_message
to_name_of(name) == IF name # FALLBACK THEN name ELSE <<>>

\* create_email_message: the Subject header; the To header is
\* formataddr((to_name, to_email)) when to_name is not empty, else the bare
\* address; row names the contact the message was built for
create_email_message(subject, to_email, to_name) ==
    [Subject |-> subject,
     To |-> IF to_name # <<>> THEN <<to_name, to_email>> ELSE <<to_email>>,
     row |-> original_idx]

\* The head of one iteration: the message is built and handed to
\* send_email_with_retry
prepare_message ==
    /\ pc = "send"
    /\ rpc = "idle"
    /\ sidx <= Len(contacts_to_send)
    /\ msg' = create_email_message(
                  render_template(SubjectTemplate,
                                  main_context(current, greeting_name(current))),
                  current.email,
                  to_name_of(greeting_name(current)))
    /\ rpc' = "attempting"
    /\ attempt' = 0
    /\ history' = <<>>
    /\ sleeps' = <<>>
    /\ ret' = NoRet
    /\ UNCHANGED <<diagnostic, previous, render_vars,
                   args, max_retries, csv_at_load, csv_file, saves, contacts,
                   pc, fidx, contacts_to_send, log, stats, sidx,
                   transport_calls, paces, exit_status>>

\* (variant: a success is logged as SENT also in a dry run)
log_status_plain(success, dry_run) == IF success THEN SENT ELSE ERROR

\* "SENT" if not args.dry_run else "DRY_RUN", or "ERROR"
log_status(success, dry_run) ==
    IF success THEN (IF dry_run THEN DRY_RUN ELSE SENT) ELSE ERROR

\* (variant: the greeting used in the mail is stored in the row as well)
mark_sent_and_name(cs, i) ==
    [cs EXCEPT ![i].status = SENT, ![i].sent_at = "now",
               ![i].contact_name = IF str_strip(@) = <<>> THEN FALLBACK ELSE @]

\* (variant: only the time is stored, the status stays as it was)
mark_sent_time_only(cs, i) == [cs EXCEPT ![i].sent_at = "now"]

\* contacts[original_idx]["status"] = "SENT"; ["sent_at"] = the time now
mark_sent(cs, i) == [cs EXCEPT ![i].status = SENT, ![i].sent_at = "now"]

\* (variant: a failed send is not counted)
count_outcome_sent_only(st, success) ==
    IF success THEN [st EXCEPT !.sent = @ + 1] ELSE st

\* stats["sent"] += 1 in the success branch, stats["failed"] += 1 in the other
count_outcome(st, success) ==
    IF success THEN [st EXCEPT !.sent = @ + 1]
    ELSE [st EXCEPT !.failed = @ + 1]

\* (variant: the row is marked whatever the send returned)
updates_status_always(success, update_contacts) == update_contacts

\* if success: ... if args.update_contacts:
updates_status(success, update_contacts) == success /\ update_contacts

\* The tail of one iteration, after send_email_with_retry returned:
\* statistics, the contact's status and the log row
record_outcome ==
    /\ pc = "send"
    /\ rpc = "returned"
    /\ stats' = count_outcome(stats, ret.success)
    /\ contacts' = IF updates_status(ret.success, args.update_contacts)
                   THEN mark_sent(contacts, original_idx + 1)
                   ELSE contacts
    /\ log' = log_to_file(log, LogEntry(original_idx, current,
                                        greeting_name(current),
                                        log_status(ret.success, args.dry_run),
                                        ret.info))
    /\ rpc' = "idle"
    /\ pc' = "pace"
    /\ UNCHANGED <<diagnostic, previous, render_vars,
                   args, max_retries, csv_at_load, csv_file, saves, fidx,
                   contacts_to_send, sidx, msg, attempt, history, sleeps, ret,
                   transport_calls, paces, exit_status>>

\* (variant: the pacing sleep is made after the last contact as well)
paces_after_every(i, n) == i <= n

\* if idx < len(contacts_to_send): time.sleep(args.sleep)
paces_after(i, n) == i < n

\* The end of one iteration: the pacing sleep, unless the contact was the
\* last one, and the for loop moves on
pace ==
    /\ pc = "pace"
    /\ paces' = IF paces_after(sidx, Len(contacts_to_send))
                THEN paces + 1 ELSE paces
    /\ sidx' = sidx + 1
    /\ pc' = IF sidx = Len(contacts_to_send) THEN "persist" ELSE "send"
    /\ UNCHANGED <<diagnostic, previous, render_vars,
                   args, max_retries, csv_at_load, csv_file, saves, contacts,
                   fidx, contacts_to_send, log, stats, msg, rpc, attempt,
                   history, sleeps, ret, transport_calls, exit_status>>

\* (variant: the file is rewritten whenever the caller asked for it)
must_save_optin(update_contacts, sent) == update_contacts

\* args.update_contacts and stats["sent"] > 0
must_save(update_contacts, sent) == update_contacts /\ sent > 0

\* After the loop: the contacts CSV is rewritten if asked for, the summary
\* is printed and main returns
finish ==
    /\ pc = "persist"
    /\ IF must_save(args.update_contacts, stats.sent)
       THEN /\ csv_file' = contacts
            /\ saves' = saves + 1
       ELSE UNCHANGED <<csv_file, saves>>
    /\ pc' = "done"
    /\ exit_status' = Exited(0)
    /\ UNCHANGED <<diagnostic, previous, render_vars,
                   args, max_retries, csv_at_load, contacts, fidx,
                   contacts_to_send, log, stats, sidx, msg, rpc, attempt,
                   history, sleeps, ret, transport_calls, paces>>

-----------------------------------------------------------------------------
(* Specifications *)

ArgSets ==
    [dry_run : BOOLEAN, update_contacts : BOOLEAN,
     from_row : 0..MaxFromRow, max : 0..MaxMax]

NoMsg == [Subject |-> <<>>, To |-> <<>>, row |-> -1]
NoPrevious == [runs |-> 0, log_len |-> 0]

\* What the transport does in a whole run: delivery, a failure the policy
\* retries, a failure it returns at once, and an exception nobody catches
RunOutcomes ==
    { Delivered, Uncaught,
      [kind |-> "ConnectionError", text |-> TxtRefused],
      [kind |-> AuthKind, text |-> TxtAuthFailed] }

\* A run of main, from the loading of its inputs to the exit
Init ==
    /\ args \in ArgSets
    /\ max_retries = DefaultMaxRetries
    /\ csv_at_load \in ContactLists
    /\ csv_file = csv_at_load
    /\ contacts = <<>>
    /\ saves = 0
    /\ pc = "load_env"
    /\ fidx = 0
    /\ contacts_to_send = <<>>
    /\ log = <<>>
    /\ stats = [sent |-> 0, failed |-> 0, skipped |-> 0]
    /\ sidx = 0
    /\ msg = NoMsg
    /\ rpc = "idle"
    /\ attempt = 0
    /\ history = <<>>
    /\ sleeps = <<>>
    /\ ret = NoRet
    /\ transport_calls = 0
    /\ paces = 0
    /\ exit_status = Running
    /\ diagnostic = ""
    /\ previous = NoPrevious
    /\ template = <<>>
    /\ context = <<>>
    /\ result = <<>>

Next ==
    \/ load_config_step
    \/ load_template_step
    \/ load_contacts_step
    \/ validate_attachment
    \/ filter_step
    \/ start_sending
    \/ prepare_message
    \/ \E o \in Offered(RunOutcomes) : send_email_with_retry_iter(o)
    \/ record_outcome
    \/ pace
    \/ finish

Spec == Init /\ [][Next]_vars

\* What the transport does in the runs of SpecResume: delivery, or a
\* failure that send_email_with_retry returns
ResumeOutcomes == { Delivered, [kind |-> AuthKind, text |-> TxtAuthFailed] }

\* A first run with --update-contacts
InitResume ==
    /\ Init
    /\ args.update_contacts

\* main is started again after a run that came to its end: the contacts
\* file and the log file are as that run left them, everything in memory
\* is new, and the command line may differ
restart ==
    /\ pc = "done"
    /\ previous.runs = 0
    /\ previous' = [runs |-> 1, log_len |-> Len(log)]
    /\ args' \in ArgSets
    /\ csv_at_load' = csv_file
    /\ contacts' = <<>>
    /\ saves' = 0
    /\ pc' = "load_env"
    /\ fidx' = 0
    /\ contacts_to_send' = <<>>
    /\ stats' = [sent |-> 0, failed |-> 0, skipped |-> 0]
    /\ sidx' = 0
    /\ msg' = NoMsg
    /\ rpc' = "idle"
    /\ attempt' = 0
    /\ history' = <<>>
    /\ sleeps' = <<>>
    /\ ret' = NoRet
    /\ transport_calls' = 0
    /\ paces' = 0
    /\ exit_status' = Running
    /\ diagnostic' = ""
    /\ UNCHANGED <<max_retries, csv_file, log, render_vars>>

NextResume ==
    \/ load_config_step
    \/ load_template_step
    \/ load_contacts_step
    \/ validate_attachment
    \/ filter_step
    \/ start_sending
    \/ prepare_message
    \/ \E o \in Offered(ResumeOutcomes) : send_email_with_retry_iter(o)
    \/ record_outcome
    \/ pace
    \/ finish
    \/ restart

\* Two runs of main, one after the other, over the same files
SpecResume == InitResume /\ [][NextResume]_vars

\* One call of render_template
render ==
    /\ pc = "render"
    /\ result' = render_template(template, context)
    /\ pc' = "rendered"
    /\ UNCHANGED <<args, max_retries, csv_at_load, csv_file, saves, contacts,
                   fidx, contacts_to_send, log, stats, sidx, msg, rpc,
                   attempt, history, sleeps, ret, transport_calls, paces,
                   exit_status, diagnostic, previous, template, context>>

\* render_template, for every template and every context
InitRender ==
    /\ template \in Templates
    /\ context \in Contexts
    /\ result = <<>>
    /\ pc = "render"
    /\ args = [dry_run |-> FALSE, update_contacts |-> FALSE,
               from_row |-> 0, max |-> 0]
    /\ max_retries = DefaultMaxRetries
    /\ csv_at_load = <<>>
    /\ csv_file = <<>>
    /\ contacts = <<>>
    /\ saves = 0
    /\ fidx = 0
    /\ contacts_to_send = <<>>
    /\ log = <<>>
    /\ stats = [sent |-> 0, failed |-> 0, skipped |-> 0]
    /\ sidx = 0
    /\ msg = NoMsg
    /\ rpc = "idle"
    /\ attempt = 0
    /\ history = <<>>
    /\ sleeps = <<>>
    /\ ret = NoRet
    /\ transport_calls = 0
    /\ paces = 0
    /\ exit_status = Running
    /\ diagnostic = ""
    /\ previous = NoPrevious

NextRender == render

SpecRender == InitRender /\ [][NextRender]_vars

\* One call of send_email_with_retry, for every max_retries and every
\* behaviour of the transport
InitRetry ==
    /\ args \in [dry_run : BOOLEAN, update_contacts : {FALSE},
                 from_row : {0}, max : {0}]
    /\ max_retries \in 0..MaxRetries
    /\ csv_at_load = <<Row(EmailOk, NameAnn, StatusEmpty, "")>>
    /\ csv_file = csv_at_load
    /\ contacts = csv_at_load
    /\ saves = 0
    /\ pc = "send"
    /\ fidx = 1
    /\ contacts_to_send = <<0>>
    /\ log = <<>>
    /\ stats = [sent |-> 0, failed |-> 0, skipped |-> 0]
    /\ sidx = 1
    /\ msg = [Subject |-> <<"A", "n", "n", ",", " ", "R", "o", "m", "a">>,
              To |-> <<NameAnn, EmailOk>>, row |-> 0]
    /\ rpc = "attempting"
    /\ attempt = 0
    /\ history = <<>>
    /\ sleeps = <<>>
    /\ ret = NoRet
    /\ transport_calls = 0
    /\ paces = 0
    /\ exit_status = Running
    /\ diagnostic = ""
    /\ previous = NoPrevious
    /\ template = <<>>
    /\ context = <<>>
    /\ result = <<>>

NextRetry ==
    \/ \E o \in Offered(TransportOutcomes) : send_email_with_retry_iter(o)
    \/ send_email_with_retry_end

SpecRetry == InitRetry /\ [][NextRetry]_vars

\* The same call, run to its end: the interpreter keeps executing the loop,
\* time.sleep and send_email return
SpecRetryLive == InitRetry /\ [][NextRetry]_vars /\ WF_vars(NextRetry)

-----------------------------------------------------------------------------
(* Properties of send_email_with_retry, checked under SpecRetry *)

\* The call returned failure, having made exactly n send_email calls
ReturnedFailureAfter(n) ==
    /\ rpc = "returned"
    /\ Len(history) = n
    /\ transport_calls = n
    /\ ~ret.success

\* C1: a transport that reports an authentication failure on every attempt
\* makes send_email_with_retry return that failure after exactly one send
\* attempt, without any backoff sleep, whatever the text of the error.
C1_AuthReturnsAfterOneAttempt ==
    (history # <<>> /\ history[1].kind = AuthKind)
        => (ReturnedFailureAfter(1) /\ sleeps = <<>>)

\* C2: a recipient-rejected or sender-rejected failure is returned after
\* exactly one attempt, never slept on or retried: no failure that was
\* followed by a backoff sleep and a retry is one of these two.
C2_RejectionsArePermanent ==
    /\ (history # <<>> /\ history[1].kind \in {RcptKind, SenderKind})
           => (ReturnedFailureAfter(1) /\ sleeps = <<>>)
    /\ \A i \in 1..Len(sleeps) : history[i].kind \notin {RcptKind, SenderKind}

\* C3: every transient failure (TLS, DNS, connection, generic) on an attempt
\* that is not the last one is followed by the backoff sleep and not by a
\* return, whatever the text of the error.
C3_TransientIsRetried ==
    \A i \in 1..Len(history) :
        (history[i].kind \in TransientKinds /\ i - 1 < max_retries - 1)
            => (Len(sleeps) >= i /\ ~(rpc = "returned" /\ Len(history) = i))

\* The send_email calls so far: k connection errors, then a delivery
ConnErrorsThenDelivered(k) ==
    /\ Len(history) = k + 1
    /\ \A i \in 1..k : history[i].kind = "ConnectionError"
    /\ history[k + 1].kind = "ok"

\* C4: when send fails with a connection error on the first k attempts and
\* then succeeds, the call returns success after exactly k+1 attempts,
\* having slept exactly 5*2^i seconds after failed attempt i = 0..k-1.
C4_BackoffThenSuccess ==
    \A k \in 0..MaxRetries :
        ConnErrorsThenDelivered(k) =>
            /\ rpc = "returned"
            /\ ret.success
            /\ ret.info = SENT_OK
            /\ transport_calls = k + 1
            /\ sleeps = [i \in 1..k |-> 5 * (2 ^ (i - 1))]

C4_Witness ==
    /\ max_retries = 3
    /\ ConnErrorsThenDelivered(2)
    /\ rpc = "returned"
    /\ ret.success
    /\ sleeps = <<5, 10>>

\* Every one of the max_retries attempts was made and failed with a failure
\* the policy retries (its detail is none of those it returns at once)
AllAttemptsFailedRetryable ==
    /\ max_retries >= 1
    /\ Len(history) = max_retries
    /\ \A i \in 1..Len(history) :
           /\ history[i].kind \in CaughtKinds
           /\ ~history[i].success
           /\ ~no_retry(history[i].info)

Succeeded == rpc = "returned" /\ ret.success
PermanentlyFailed ==
    /\ rpc = "returned"
    /\ ~ret.success
    /\ ret.info = history[Len(history)].info
ExhaustedFailed ==
    /\ rpc = "returned"
    /\ ~ret.success
    /\ Len(history) = max_retries
    /\ SubSeq(ret.info, 1, 13) =
           <<"F", "a", "i", "l", "e", "d", " ", "a", "f", "t", "e", "r", " ">>

\* Every send_email call so far gave an outcome back
OutcomesOnly == rpc # "raised"

\* At most max_retries attempts and max_retries - 1 sleeps; while
\* attempting, another attempt is still due and no attempt succeeded; once
\* returned, the state is exactly one of the three terminal states, the
\* last attempt is the one that ended the call and no attempt follows it.
RetryMachine ==
    (max_retries >= 1 /\ OutcomesOnly) =>
        /\ Len(history) <= max_retries
        /\ Len(sleeps) <= max_retries - 1
        /\ rpc \in {"attempting", "returned"}
        /\ rpc = "attempting" =>
               /\ ret = [success |-> FALSE, info |-> <<>>]
               /\ Len(history) = attempt
               /\ Len(sleeps) = attempt
               /\ attempt < max_retries
               /\ \A i \in 1..Len(history) : ~history[i].success
        /\ rpc = "returned" =>
               /\ Len(history) = attempt + 1
               /\ Len(sleeps) = attempt
               /\ \A i \in 1..(Len(history) - 1) : ~history[i].success
               /\ ret.success = history[Len(history)].success
               /\ \/ Succeeded /\ ~PermanentlyFailed /\ ~ExhaustedFailed
                  \/ ~Succeeded /\ PermanentlyFailed /\ ~ExhaustedFailed
                  \/ ~Succeeded /\ ~PermanentlyFailed /\ ExhaustedFailed

-----------------------------------------------------------------------------
(* Properties of a run of main, checked under Spec *)

Rows == 0..(Len(csv_at_load) - 1)

\* Positions of main: the contacts are loaded; the filter loop is over
AfterLoad ==
    {"attachment", "filter", "filtered", "exited", "send", "pace", "persist",
     "done", "crashed"}
AfterFilter ==
    {"filtered", "exited", "send", "pace", "persist", "done", "crashed"}
Selected == {contacts_to_send[k] : k \in 1..Len(contacts_to_send)}
LogRowsOf(idx) == {j \in 1..Len(log) : log[j].row = idx}

\* The log rows the send loop wrote (the filter's rows carry the info
\* "Invalid email format")
SendLogRows ==
    {j \in 1..Len(log) :
        log[j].info # <<"I", "n", "v", "a", "l", "i", "d", " ", "e", "m", "a", "i", "l", " ", "f", "o", "r", "m", "a", "t">>}

\* C6: in dry-run mode send_email_with_retry returns success with the fixed
\* marker on its first send_email call, with no transport session and no
\* sleep; over the whole run no transport session is ever opened and every
\* selected contact is logged with status DRY_RUN.
C6_DryRunTouchesNoTransport ==
    args.dry_run =>
        /\ transport_calls = 0
        /\ sleeps = <<>>
        /\ pc # "crashed"
        /\ history # <<>> =>
               /\ Len(history) = 1
               /\ rpc \in {"returned", "idle"}
               /\ ret.success
               /\ ret.info = <<"D", "R", "Y", " ", "R", "U", "N", " ", "-", " ", "E", "m", "a", "i", "l", " ", "n", "o", "t", " ", "s", "e", "n", "t">>
        /\ \A j \in SendLogRows : log[j].status = <<"D", "R", "Y", "_", "R", "U", "N">>
        /\ pc = "done" =>
               \A idx \in Selected :
                   \E j \in SendLogRows :
                       /\ log[j].row = idx
                       /\ log[j].status = <<"D", "R", "Y", "_", "R", "U", "N">>

C6_Witness ==
    /\ args.dry_run
    /\ pc = "done"
    /\ Len(contacts_to_send) = 2
    /\ Cardinality(SendLogRows) = 2
    /\ history # <<>>
    /\ transport_calls = 0

\* The stored statuses of the inputs that read SENT or SKIP once trimmed
\* and compared without case
HandledSpellings ==
    { <<" ", "s", "e", "n", "t">>, <<"S", "k", "i", "p", " ">> }

\* C7: a contact whose status at load time, trimmed and compared
\* case-insensitively, is SENT or SKIP is never selected by the filter,
\* never built into a message or passed to send, and has no log row.
C7_HandledContactsUntouched ==
    \A idx \in Rows :
        csv_at_load[idx + 1].status \in HandledSpellings =>
            /\ idx \notin Selected
            /\ msg.row # idx
            /\ LogRowsOf(idx) = {}

C7_Witness ==
    /\ pc = "done"
    /\ args.from_row = 0
    /\ Len(csv_at_load) = 2
    /\ csv_at_load[1].status = <<" ", "s", "e", "n", "t">>
    /\ Selected = {1}
    /\ Len(log) = 1

\* The inputs' addresses that fail validation: by the pattern, by the lookup
FailingEmails ==
    { <<"n", "o", "t", "-", "a", "n", "-", "e", "m", "a", "i", "l">>,
      <<"c", "@", "n", "o", ".", "i", "t">> }

\* Row idx reached the filter's validation and its address failed it
RejectedByValidation(idx) ==
    /\ idx < fidx
    /\ idx >= args.from_row
    /\ csv_at_load[idx + 1].status \notin HandledSpellings
    /\ csv_at_load[idx + 1].email \in FailingEmails

\* C8: a contact the filter examines whose email fails validation is not
\* selected, gets exactly one log row, with status ERROR and info "Invalid
\* email format", changes no counter of the statistics, and does not stop
\* the filter from examining the later contacts.
C8_InvalidEmailLoggedOnce ==
    /\ \A idx \in Rows :
           RejectedByValidation(idx) =>
               /\ idx \notin Selected
               /\ Cardinality(LogRowsOf(idx)) = 1
               /\ \A j \in LogRowsOf(idx) :
                      /\ log[j].status = <<"E", "R", "R", "O", "R">>
                      /\ log[j].info = <<"I", "n", "v", "a", "l", "i", "d", " ", "e", "m", "a", "i", "l", " ", "f", "o", "r", "m", "a", "t">>
                      /\ log[j].email = csv_at_load[idx + 1].email
               /\ (fidx = idx + 1 /\ fidx < Len(csv_at_load)) => pc = "filter"
    /\ pc \in {"filter", "filtered", "exited"} =>
           stats = [sent |-> 0, failed |-> 0, skipped |-> 0]
    /\ stats.skipped = 0
    /\ stats.sent + stats.failed <= Len(contacts_to_send)

C8_Witness ==
    /\ pc = "done"
    /\ Len(csv_at_load) = 2
    /\ RejectedByValidation(0)
    /\ csv_at_load[1].email = <<"c", "@", "n", "o", ".", "i", "t">>
    /\ Selected = {1}
    /\ Len(log) = 2
    /\ stats.sent + stats.failed = 1

\* How many iterations of the send loop have come to their log row
CompletedSends == IF pc = "pace" THEN sidx ELSE sidx - 1

\* C9: exactly one log row is appended per contact that reaches the send
\* attempt, however many retries were made and whether the call ended in
\* success, permanent failure or exhaustion; its status is SENT (real
\* success), DRY_RUN (dry-run success) or ERROR (failure) and its info is
\* the detail send_email_with_retry returned.
C9_OneLogRowPerSend ==
    /\ \A k \in 1..Len(contacts_to_send) :
           Cardinality(LogRowsOf(contacts_to_send[k]) \cap SendLogRows)
               = IF k <= CompletedSends THEN 1 ELSE 0
    /\ (pc \in {"send", "pace", "persist", "done"} /\ rpc = "idle"
           /\ CompletedSends >= 1) =>
           LET e == log[Len(log)] IN
           /\ e.row = contacts_to_send[CompletedSends]
           /\ e.info = ret.info
           /\ e.status =
                  IF ~ret.success THEN <<"E", "R", "R", "O", "R">>
                  ELSE IF args.dry_run THEN <<"D", "R", "Y", "_", "R", "U", "N">>
                  ELSE <<"S", "E", "N", "T">>

C9_Witness ==
    /\ pc = "done"
    /\ Len(contacts_to_send) = 2
    /\ Len(history) = 3
    /\ Len(log) = 2
    /\ log[1].status = <<"S", "E", "N", "T">>
    /\ log[2].status = <<"E", "R", "R", "O", "R">>
    /\ log[2].info = ret.info
    /\ Len(sleeps) = 2

\* Row idx passes the filter: at or after from_row, not already handled,
\* and with an address that validates
Qualifies(idx) ==
    /\ idx >= args.from_row
    /\ csv_at_load[idx + 1].status \notin HandledSpellings
    /\ csv_at_load[idx + 1].email \notin FailingEmails
Qualifying == {idx \in Rows : Qualifies(idx)}
FirstQualifying(n) ==
    {idx \in Qualifying : Cardinality({q \in Qualifying : q < idx}) < n}

\* C10: the filtered set holds only rows with original index >= from_row,
\* in strictly increasing original order; with max > 0 it holds at most max
\* contacts and is exactly the first max qualifying rows, and with max 0 or
\* not given it holds every qualifying row.
C10_FilteredSet ==
    /\ \A k \in 1..Len(contacts_to_send) :
           /\ contacts_to_send[k] \in Rows
           /\ contacts_to_send[k] >= args.from_row
           /\ k > 1 => contacts_to_send[k - 1] < contacts_to_send[k]
    /\ args.max > 0 => Len(contacts_to_send) <= args.max
    /\ pc \in AfterFilter =>
           Selected = IF args.max > 0 THEN FirstQualifying(args.max)
                      ELSE Qualifying

C10_Witness ==
    /\ pc = "send"
    /\ args.max = 1
    /\ args.from_row = 0
    /\ Cardinality(Qualifying) = 2
    /\ contacts_to_send = <<0>>

\* The log rows of sends that succeeded (really or in a dry run)
SuccessLogRows ==
    {j \in SendLogRows :
        log[j].status \in {<<"S", "E", "N", "T">>, <<"D", "R", "Y", "_", "R", "U", "N">>}}

\* Every selected contact has been through the send loop and has its log row
AllProcessedAndLogged ==
    /\ pc \in AfterFilter
    /\ sidx = Len(contacts_to_send) + 1
    /\ \A idx \in Selected : LogRowsOf(idx) \cap SendLogRows # {}

\* C11: the contacts file is rewritten at most once; it has been rewritten
\* only when the caller passed --update-contacts, at least one send of this
\* run succeeded and every selected contact has been processed and logged;
\* and a run that came to its end has rewritten it exactly when the caller
\* opted in and at least one send succeeded.
C11_PersistOnceAtEnd ==
    /\ saves \in {0, 1}
    /\ saves = 1 =>
           /\ pc = "done"
           /\ args.update_contacts
           /\ SuccessLogRows # {}
           /\ AllProcessedAndLogged
    /\ pc = "done" =>
           (saves = 1 <=> (args.update_contacts /\ SuccessLogRows # {}))

C11_Witness ==
    /\ pc = "done"
    /\ saves = 1
    /\ ~args.dry_run
    /\ Len(contacts_to_send) = 2
    /\ log[1].status = <<"E", "R", "R", "O", "R">>
    /\ log[2].status = <<"S", "E", "N", "T">>
    /\ csv_file # csv_at_load

\* The columns of a contact row other than status and sent_at
KeptColumns == {"email", "hotel_name", "city", "contact_name", "notes"}

\* list has the rows of the loaded file, in their order, and differs from
\* them only in status and sent_at, only on rows whose send succeeded
SameRowsButSent(list) ==
    /\ Len(list) = Len(csv_at_load)
    /\ \A i \in 1..Len(list) :
           /\ DOMAIN list[i] = DOMAIN csv_at_load[i]
           /\ \A col \in KeptColumns : list[i][col] = csv_at_load[i][col]
           /\ (list[i].contact_name = <<"R", "e", "s", "p", "o", "n", "s", "a", "b", "i", "l", "e", " ", "d", "e", "l", "l", "e", " ", "r", "i", "s", "o", "r", "s", "e", " ", "u", "m", "a", "n", "e">>
                  => csv_at_load[i].contact_name = list[i].contact_name)
           /\ (list[i].status # csv_at_load[i].status
                   \/ list[i].sent_at # csv_at_load[i].sent_at)
                  => \E j \in SuccessLogRows : log[j].row = i - 1

\* C12: at every point of a run, the contact list in memory and the
\* contacts file have the same rows in the same order as at load; only
\* status and sent_at differ from the loaded values, and only on rows whose
\* send succeeded in this run; the generic fallback contact name is never
\* stored in a contact row.
C12_OnlyStatusOfSentRowsChanges ==
    /\ pc \in AfterLoad => SameRowsButSent(contacts)
    /\ SameRowsButSent(csv_file)

C12_Witness ==
    /\ pc = "done"
    /\ saves = 1
    /\ Len(csv_at_load) = 2
    /\ csv_at_load[1].contact_name = <<" ">>
    /\ csv_at_load[1].status = <<"E", "R", "R", "O", "R">>
    /\ csv_file[1].status = <<"S", "E", "N", "T">>
    /\ csv_file[1].sent_at = "now"
    /\ csv_file[1].contact_name = <<" ">>
    /\ Len(log) = 2
    /\ log[1].contact_name = <<"R", "e", "s", "p", "o", "n", "s", "a", "b", "i", "l", "e", " ", "d", "e", "l", "l", "e", " ", "r", "i", "s", "o", "r", "s", "e", " ", "u", "m", "a", "n", "e">>
    /\ log[2].status = <<"E", "R", "R", "O", "R">>
    /\ csv_file[2] = csv_at_load[2]

\* C13: when the filter selected no contact (the list is empty, or every
\* row is SENT/SKIP, invalid or before from_row), the process ends with an
\* exit status that is not zero.
C13_NoContactsExitsNonZero ==
    (pc \in AfterFilter \ {"filtered"} /\ contacts_to_send = <<>>) =>
        /\ exit_status # Running
        /\ exit_status[1] # 0

\* The log rows of sends that failed
ErrorLogRows ==
    {j \in SendLogRows : log[j].status = <<"E", "R", "R", "O", "R">>}

\* C14: no failure the transport raises for one contact aborts the run:
\* the process never ends on an exception, every failed send call has
\* returned a failed outcome that is logged as ERROR and counted in failed,
\* the send loop goes on to every later selected contact, and the run ends
\* with exit status zero.
C14_TransportFailuresNeverAbort ==
    /\ pc # "crashed"
    /\ rpc # "raised"
    /\ pc # "fatal" => exit_status \in {Running, <<0>>}
    /\ stats.failed = Cardinality(ErrorLogRows)
    /\ exit_status # Running =>
           \A idx \in Selected : LogRowsOf(idx) \cap SendLogRows # {}

\* The diagnostics of the fatal errors: configuration, templates, contacts
\* file and its columns, attachment
FatalDiagnostics ==
    { "Error: Missing required variables", "Error: No credentials found!",
      "Error: Template file not found", "Error: Contacts CSV not found",
      "Error: CSV file appears to be empty or malformed",
      "Error: CSV has incorrect columns", "Error: Attachment not found" }

\* C15: a fatal error (configuration that cannot be resolved, missing
\* template, missing contacts file or required columns, missing attachment)
\* ends the process with a non-zero status before any side effect: no log
\* row has been appended, no send attempted, no transport session opened,
\* and the contacts file has not been rewritten.
C15_FatalBeforeSideEffects ==
    /\ diagnostic \in FatalDiagnostics <=> pc = "fatal"
    /\ pc = "fatal" =>
           /\ exit_status # Running
           /\ exit_status[1] # 0
           /\ log = <<>>
           /\ history = <<>>
           /\ transport_calls = 0
           /\ paces = 0
           /\ saves = 0
           /\ csv_file = csv_at_load
    /\ (log # <<>> \/ transport_calls > 0 \/ saves > 0) => diagnostic = ""

C15_Witness ==
    /\ pc = "fatal"
    /\ diagnostic = "Error: Attachment not found"
    /\ exit_status = <<1>>
    /\ Len(contacts) = 2
    /\ contacts[1].email = <<"n", "o", "t", "-", "a", "n", "-", "e", "m", "a", "i", "l">>
    /\ log = <<>>

\* The selected contact at position k has its log row from the send loop
SendLogged(k) == LogRowsOf(contacts_to_send[k]) \cap SendLogRows # {}

\* C16: the selected contacts are processed one at a time, in their
\* original order: the log rows of the send loop are in that order; while
\* any send attempt is made for the contact at position k, every earlier
\* selected contact has its log row and exactly k-1 pacing sleeps have been
\* made; each pacing sleep comes after the log row of the contact before
\* it; there is none after the last contact, so a run over n selected
\* contacts that comes to its end has made exactly n-1 of them.
C16_OneAtATimeWithPacing ==
    /\ \A i, j \in SendLogRows : i < j => log[i].row < log[j].row
    /\ (pc \in {"send", "crashed"} /\ rpc # "idle") =>
           /\ msg.row = contacts_to_send[sidx]
           /\ \A k \in 1..Len(contacts_to_send) : SendLogged(k) <=> k < sidx
           /\ paces = sidx - 1
    /\ paces <= Cardinality(SendLogRows)
    /\ pc = "pace" => paces = Cardinality(SendLogRows) - 1
    /\ pc \in {"persist", "done"} =>
           /\ Cardinality(SendLogRows) = Len(contacts_to_send)
           /\ paces = Len(contacts_to_send) - 1

C16_Witness ==
    /\ pc = "done"
    /\ Len(contacts_to_send) = 2
    /\ Cardinality(SendLogRows) = 2
    /\ paces = 1
    /\ Len(history) = 3

\* The log file only grows: what it held stays as it was
LogAppendOnly ==
    /\ Len(log') >= Len(log)
    /\ SubSeq(log', 1, Len(log)) = log

\* The contacts file is written by the end-of-run persistence step alone
FileWrittenAtEndOnly == csv_file' # csv_file => (pc = "persist" /\ pc' = "done")

\* C17: wherever the process is stopped before the end-of-run persistence
\* step, the log file holds a row for every contact whose outcome has been
\* recorded (sent or failed), the rows written earlier are still there
\* unchanged, and the contacts file is what was loaded.
C17_KilledRunLeavesLogAndFile ==
    /\ [](saves = 0 => csv_file = csv_at_load)
    /\ [](stats.sent + stats.failed = Cardinality(SendLogRows))
    /\ [](\A k \in 1..Len(contacts_to_send) :
              k <= CompletedSends => SendLogged(k))
    /\ [][LogAppendOnly]_vars
    /\ [][FileWrittenAtEndOnly]_vars

C17_Witness ==
    /\ pc = "crashed"
    /\ args.update_contacts
    /\ saves = 0
    /\ Len(contacts_to_send) = 2
    /\ Len(log) = 1
    /\ log[1].status = <<"S", "E", "N", "T">>
    /\ contacts # csv_at_load
    /\ csv_file = csv_at_load

\* The contact names of the inputs, trimmed
Trimmed(name) ==
    IF name = <<" ", "A", "n", "n", " ">> THEN <<"A", "n", "n">>
    ELSE IF name = <<" ">> THEN <<>>
    ELSE name

\* C21: for every selected contact the message is built for, the To header
\* has a display name exactly when the contact's trimmed contact_name is
\* not empty, and it is that name; when it is empty the subject is rendered
\* with the generic greeting as contact_name and the To header is the bare
\* address, never the greeting.
C21_DisplayNameIffNamed ==
    msg.row >= 0 =>
        LET c == csv_at_load[msg.row + 1]
            name == Trimmed(c.contact_name)
        IN  IF name # <<>>
            THEN /\ msg.To = <<name, c.email>>
                 /\ msg.Subject = name \o <<",", " ", "R", "o", "m", "a">>
            ELSE /\ msg.To = <<c.email>>
                 /\ msg.Subject = <<"R", "e", "s", "p", "o", "n", "s", "a", "b", "i", "l", "e", " ", "d", "e", "l", "l", "e", " ", "r", "i", "s", "o", "r", "s", "e", " ", "u", "m", "a", "n", "e">>
                                  \o <<",", " ", "R", "o", "m", "a">>

\* Row i of list differs from the loaded row in status or sent_at
Marked(list, i) ==
    \/ list[i].status # csv_at_load[i].status
    \/ list[i].sent_at # csv_at_load[i].sent_at

\* A real transmission to row i succeeded in this run
ReallySent(i) ==
    /\ ~args.dry_run
    /\ transport_calls >= 1
    /\ \E j \in 1..Len(log) :
           /\ log[j].row = i - 1
           /\ log[j].status = <<"S", "E", "N", "T">>

\* C23: a contact's status and sent_at change, in memory or in the contacts
\* file, only if a real transmission to that contact succeeded in this run;
\* a dry run, even with --update-contacts, marks no contact and never
\* rewrites the contacts file.
C23_MarkedOnlyByRealSend ==
    /\ \A i \in 1..Len(contacts) : Marked(contacts, i) => ReallySent(i)
    /\ \A i \in 1..Len(csv_file) : Marked(csv_file, i) => ReallySent(i)
    /\ args.dry_run =>
           /\ saves = 0
           /\ csv_file = csv_at_load
           /\ pc \in AfterLoad => contacts = csv_at_load

\* The log rows with status ERROR about row idx: a send that failed or an
\* email address that did not validate
FailureLogRows(idx) ==
    {j \in LogRowsOf(idx) : log[j].status = <<"E", "R", "R", "O", "R">>}

\* Row i of list has the status and sent_at it was loaded with
AsLoaded(list, i) ==
    /\ list[i].status = csv_at_load[i].status
    /\ list[i].sent_at = csv_at_load[i].sent_at

\* C24: a contact whose send returned failure, permanent or exhausted, and
\* a contact rejected by the email validation keep the status and sent_at
\* they were loaded with, in memory and in the file; no row's status is set
\* to ERROR.
C24_FailedRowsKeepStatus ==
    /\ \A i \in 1..Len(contacts) :
           /\ FailureLogRows(i - 1) # {} =>
                  (AsLoaded(contacts, i) /\ AsLoaded(csv_file, i))
           /\ contacts[i].status = <<"E", "R", "R", "O", "R">>
                  => csv_at_load[i].status = <<"E", "R", "R", "O", "R">>
    /\ \A i \in 1..Len(csv_file) :
           csv_file[i].status = <<"E", "R", "R", "O", "R">>
               => csv_at_load[i].status = <<"E", "R", "R", "O", "R">>
    /\ (pc = "send" /\ rpc = "returned" /\ ~ret.success) =>
           AsLoaded(contacts, contacts_to_send[sidx] + 1)

\* A run with --update-contacts over two contacts: the first was sent and
\* marked, the send to the second failed after every attempt, and the file
\* was rewritten
C24_Witness ==
    /\ pc = "done"
    /\ args.update_contacts
    /\ ~args.dry_run
    /\ saves = 1
    /\ Len(csv_at_load) = 2
    /\ Len(log) = 2
    /\ log[1].status = <<"S", "E", "N", "T">>
    /\ log[2].status = <<"E", "R", "R", "O", "R">>
    /\ log[2].row = 1
    /\ csv_file[1].status = <<"S", "E", "N", "T">>
    /\ csv_file[2].status = csv_at_load[2].status
    /\ csv_file[2].sent_at = ""

\* C25: at every point of the send loop sent + failed is the number of
\* selected contacts whose processing has completed, so after the loop
\* sent + failed is the size of the filtered set; every completed contact
\* counts once, as sent or as failed, however many attempts its send took;
\* skipped stays 0.
C25_StatsCountCompleted ==
    /\ stats.skipped = 0
    /\ IF pc \in {"send", "pace", "persist", "done", "crashed"}
       THEN stats.sent + stats.failed =
                (IF pc = "pace" THEN sidx ELSE sidx - 1)
       ELSE stats.sent = 0 /\ stats.failed = 0
    /\ stats.sent = Cardinality(SuccessLogRows)
    /\ stats.failed = Cardinality(ErrorLogRows)
    /\ stats.sent + stats.failed <= Len(contacts_to_send)
    /\ pc \in {"persist", "done"} =>
           stats.sent + stats.failed = Len(contacts_to_send)

\* A finished run over two contacts: one sent, one failed after retries
C25_Witness ==
    /\ pc = "done"
    /\ Len(contacts_to_send) = 2
    /\ stats = [sent |-> 1, failed |-> 1, skipped |-> 0]
    /\ transport_calls >= 4

-----------------------------------------------------------------------------
(* Properties of two runs in a row, checked under SpecResume *)

\* The log rows the earlier run wrote, and the rows of this run
EarlierLogRows == {j \in SendLogRows : j <= previous.log_len}
LaterLogRows == {j \in 1..Len(log) : j > previous.log_len}

\* The contacts whose send succeeded, failed, in the earlier run
SentEarlier ==
    {log[j].row : j \in {i \in EarlierLogRows :
        log[i].status \in {<<"S", "E", "N", "T">>, <<"D", "R", "Y", "_", "R", "U", "N">>}}}
FailedEarlier ==
    {log[j].row : j \in {i \in EarlierLogRows :
        log[i].status = <<"E", "R", "R", "O", "R">>}}

\* The filter stopped at --max before it came to row idx
CutByMax(idx) ==
    /\ args.max > 0
    /\ Len(contacts_to_send) = args.max
    /\ idx > contacts_to_send[Len(contacts_to_send)]

\* C18: in a second run over the contacts file that a completed first run
\* with --update-contacts left, no contact whose send succeeded in the
\* first run is selected, built into a message or logged, and every contact
\* whose send failed in the first run is selected again, unless it lies
\* before --from-row or after the point where --max stopped the filter.
C18_ResumptionByStatus ==
    previous.runs = 1 =>
        /\ \A idx \in SentEarlier :
               /\ idx \notin Selected
               /\ msg.row # idx
               /\ \A j \in LaterLogRows : log[j].row # idx
        /\ pc \in AfterFilter =>
               \A idx \in FailedEarlier :
                   (idx >= args.from_row /\ ~CutByMax(idx)) => idx \in Selected

C18_Witness ==
    /\ previous.runs = 1
    /\ pc = "done"
    /\ ~args.dry_run
    /\ args.max = 0
    /\ args.from_row = 0
    /\ SentEarlier = {0}
    /\ FailedEarlier = {1}
    /\ Selected = {1}
    /\ Len(log) = 3
    /\ log[1].status = <<"S", "E", "N", "T">>
    /\ log[3].row = 1

-----------------------------------------------------------------------------
(* Properties of render_template, checked under SpecRender *)

\* sub occurs in s; the text {{key}}; the string form of a context value
Occurs(sub, s) ==
    \E i \in 1..(Len(s) - Len(sub) + 1) : SubSeq(s, i, i + Len(sub) - 1) = sub
Braced(key) == <<"{", "{">> \o key \o <<"}", "}">>
Shown(value) == IF value.type = "int" THEN <<"7">> ELSE value.s

\* Every key of the context occurs in the template as {{key}}
EveryKeyOccurs ==
    \A i \in 1..Len(context) : Occurs(Braced(context[i].key), template)

\* The result holds no {{key}} for a key of the context, and holds the
\* string form of every value
NothingLeftAllShown ==
    \A i \in 1..Len(context) :
        /\ ~Occurs(Braced(context[i].key), result)
        /\ Occurs(Shown(context[i].value), result)

\* C19 (as stated): for every template and context where every key of the
\* context occurs in the template as {{key}}, the rendered text holds no
\* {{key}} for any key of the context and holds the string form of each
\* value.
C19_NothingLeftAllShown ==
    (pc = "rendered" /\ EveryKeyOccurs) => NothingLeftAllShown

\* s has no brace
BraceFree(s) == \A i \in 1..Len(s) : s[i] \notin {"{", "}"}

\* Every brace of s belongs to a placeholder {{key}}
BracesInPlaceholders(s) ==
    \A i \in 1..Len(s) :
        s[i] \in {"{", "}"} =>
            \E key \in {<<"a">>, <<"b">>, <<"c">>}, j \in 1..i :
                /\ i < j + Len(Braced(key))
                /\ j + Len(Braced(key)) - 1 <= Len(s)
                /\ SubSeq(s, j, j + Len(Braced(key)) - 1) = Braced(key)

\* C19 (amended): the same, for templates whose braces all belong to
\* placeholders and contexts whose values hold no brace.
C19_NothingLeftAllShownPlain ==
    (/\ pc = "rendered"
     /\ EveryKeyOccurs
     /\ BracesInPlaceholders(template)
     /\ \A i \in 1..Len(context) : BraceFree(Shown(context[i].value)))
        => NothingLeftAllShown

C19_Witness ==
    /\ pc = "rendered"
    /\ template = <<"{", "{", "a", "}", "}", "{", "{", "b", "}", "}", "{", "{", "a", "}", "}">>
    /\ Len(context) = 2
    /\ context[1].key = <<"a">>
    /\ context[1].value.s = <<"v">>
    /\ context[2].key = <<"b">>
    /\ context[2].value.n = 7
    /\ result = <<"v", "7", "v">>

\* One pass over s from left to right: a {{key}} of the context becomes the
\* string form of its value, which is not looked at again
RECURSIVE SinglePass(_, _)
SinglePass(s, items) ==
    IF s = <<>> THEN <<>>
    ELSE LET hits == {i \in 1..Len(items) :
                         /\ Len(s) >= Len(Braced(items[i].key))
                         /\ SubSeq(s, 1, Len(Braced(items[i].key)))
                                = Braced(items[i].key)}
         IN  IF hits = {} THEN <<s[1]>> \o SinglePass(Tail(s), items)
             ELSE LET i == CHOOSE h \in hits : TRUE
                  IN  Shown(items[i].value)
                      \o SinglePass(SubSeq(s, Len(Braced(items[i].key)) + 1,
                                           Len(s)), items)

\* The items in every order
Orderings(items) ==
    {[i \in 1..Len(items) |-> items[p[i]]] : p \in Permutations(1..Len(items))}

\* C20: rendering substitutes nothing into what it inserted and does not
\* depend on the order of the keys: the result is the single-pass
\* simultaneous substitution of the template, it is the same for every
\* order of the context's items, placeholders of keys the context does not
\* have stay as they are, and with an empty context the result is the
\* template.
C20_SinglePassAnyOrder ==
    pc = "rendered" =>
        /\ context = <<>> => result = template
        /\ result = SinglePass(template, context)
        /\ \A other \in Orderings(context) :
               render_template(template, other) = result

=============================================================================
